---- MODULE Spec2Model ----
(***************************************************************************)
(* Black-Scholes pricer (optionsPricer.py, optionsProfit.py) and the       *)
(* covered-call backtest built on it (optionsProfit.py).                   *)
(*                                                                         *)
(* Python floats are modelled in fixed point: a finite float x is the      *)
(* integer x * SC.  The library functions math.log, math.exp, math.sqrt    *)
(* and scipy's norm.cdf are evaluated in that fixed point (series, Newton  *)
(* iteration, a table with linear interpolation).  The float NaN, which    *)
(* pandas produces for a standard deviation over an infinite log return,   *)
(* is kept as a separate value.                                            *)
(***************************************************************************)
EXTENDS Integers, Sequences, FiniteSets, TLC

\* ------------------------------------------------------------------------
\* Fixed-point floats
\* ------------------------------------------------------------------------

\* Resolution of the fixed point: 1.0 is SC.
SC == 10^3

Num(n) == [nan |-> FALSE, v |-> n]
NaN == [nan |-> TRUE, v |-> 0]

Max2(a, b) == IF a >= b THEN a ELSE b

MulFix(a, b) == (a * b) \div SC

DivFix(a, b) == (a * SC) \div b

RECURSIVE IsqrtIter(_, _)
IsqrtIter(n, g) ==
    LET h == (g + (n \div g)) \div 2
    IN  IF h >= g THEN g ELSE IsqrtIter(n, h)

\* floor of the square root of a natural number
Isqrt(n) == IF n < 2 THEN n ELSE IsqrtIter(n, n)

\* math.sqrt of a float x >= 0
SqrtFix(x) == Isqrt(x * SC)

\* math.log of a float x > 0: ln x = 2 atanh((x-1)/(x+1)), after halving or
\* doubling x into [1/2, 2]
RECURSIVE LnFix(_)
LnFix(x) ==
    IF x > 2 * SC THEN 693 + LnFix(x \div 2)
    ELSE IF 2 * x < SC THEN LnFix(2 * x) - 693
    ELSE LET z  == ((x - SC) * SC) \div (x + SC)
             z2 == MulFix(z, z)
             z3 == MulFix(z, z2)
             z5 == MulFix(z3, z2)
         IN  2 * z + (2 * z3) \div 3 + (2 * z5) \div 5

\* math.exp of a float x
RECURSIVE ExpFix(_)
ExpFix(x) ==
    IF x > SC THEN MulFix(ExpFix(x - SC), 2718)
    ELSE IF x < -SC THEN MulFix(ExpFix(x + SC), 368)
    ELSE LET t2 == (x * x) \div (2 * SC)
             t3 == (t2 * x) \div (3 * SC)
             t4 == (t3 * x) \div (4 * SC)
             t5 == (t4 * x) \div (5 * SC)
         IN  SC + x + t2 + t3 + t4 + t5

\* norm.cdf at 0.0, 0.1, ..., 4.0
PhiTable ==
    << 500, 540, 579, 618, 655, 691, 726, 758, 788, 816,
       841, 864, 885, 903, 919, 933, 945, 955, 964, 971,
       977, 982, 986, 989, 992, 994, 995, 997, 997, 998,
       999, 999, 999, 1000, 1000, 1000, 1000, 1000, 1000, 1000, 1000 >>

\* norm.cdf of a float x >= 0
PhiPos(x) ==
    IF x >= 4 * SC THEN SC
    ELSE LET k  == x \div 100
             f  == x % 100
             lo == PhiTable[k + 1]
             hi == PhiTable[k + 2]
         IN  lo + ((hi - lo) * f) \div 100

\* norm.cdf of a float x
NormCdf(x) == IF x >= 0 THEN PhiPos(x) ELSE SC - PhiPos(-x)

\* ------------------------------------------------------------------------
\* Strings: option_type is a sequence of characters
\* ------------------------------------------------------------------------

Upper == <<"A", "C", "L", "P", "T", "U", "W", "S">>
Lower == <<"a", "c", "l", "p", "t", "u", "w", "s">>

\* str.lower on one character
LowerChar(c) ==
    IF \E k \in 1..Len(Upper) : Upper[k] = c
    THEN Lower[CHOOSE k \in 1..Len(Upper) : Upper[k] = c]
    ELSE c

\* option_type compared as given, without .lower()
StrLowerOmitted(s) == s

\* str.lower
StrLower(s) == [k \in 1..Len(s) |-> LowerChar(s[k])]

\* ------------------------------------------------------------------------
\* black_scholes_price
\* ------------------------------------------------------------------------

Raise(exc, msg) == [ok |-> FALSE, val |-> NaN, exc |-> exc, msg |-> msg]
Return(val) == [ok |-> TRUE, val |-> val, exc |-> "", msg |-> ""]

DomainMsg == "S, K, T, and sigma must be greater than 0."
TypeMsg == "Invalid option type. Use 'call' or 'put'."

\* The guard without its test of K
DomainGuardNoStrike(S, K, T, sigma) ==
    T <= 0 \/ (~sigma.nan /\ sigma.v <= 0) \/ S <= 0

\* T <= 0 or sigma <= 0 or S <= 0 or K <= 0; a comparison with NaN is False
DomainGuard(S, K, T, sigma) ==
    T <= 0 \/ (~sigma.nan /\ sigma.v <= 0) \/ S <= 0 \/ K <= 0

\* the option_type branches, given d1 and d2
PriceBranch(S, K, T, r, d1, d2, option_type) ==
    IF StrLower(option_type) = <<"c", "a", "l", "l">>
    THEN Return(Num(MulFix(S, NormCdf(d1))
                    - MulFix(MulFix(K, ExpFix(-MulFix(r, T))), NormCdf(d2))))
    ELSE IF StrLower(option_type) = <<"p", "u", "t">>
    THEN Return(Num(MulFix(MulFix(K, ExpFix(-MulFix(r, T))), NormCdf(-d2))
                    - MulFix(S, NormCdf(-d1))))
    ELSE Raise("ValueError", TypeMsg)

\* S, K, T, r are finite floats; sigma is a float that may be NaN
black_scholes_price(S, K, T, r, sigma, option_type) ==
    IF DomainGuard(S, K, T, sigma)
    THEN Raise("ValueError", DomainMsg)
    ELSE IF K = 0
    THEN Raise("ZeroDivisionError", "float division by zero")
    ELSE IF DivFix(S, K) <= 0 \/ T < 0
    THEN Raise("ValueError", "math domain error")
    ELSE IF sigma.nan
    THEN IF StrLower(option_type) \in {<<"c", "a", "l", "l">>, <<"p", "u", "t">>}
         THEN Return(NaN)
         ELSE Raise("ValueError", TypeMsg)
    ELSE IF MulFix(sigma.v, SqrtFix(T)) = 0
    THEN Raise("ZeroDivisionError", "float division by zero")
    ELSE LET srt == MulFix(sigma.v, SqrtFix(T))
             d1  == DivFix(LnFix(DivFix(S, K))
                           + MulFix(r + MulFix(sigma.v, sigma.v) \div 2, T), srt)
             d2  == d1 - srt
         IN  PriceBranch(S, K, T, r, d1, d2, option_type)

\* ------------------------------------------------------------------------
\* The data frame returned by preprocess_data
\* ------------------------------------------------------------------------

\* The trailing window, the forward window and the trading days of a year.
TradingDays == 252

\* The strike ratio hard-coded in the payoff that diffCheck accumulates.
PayoffRatio == 1050

\* A data frame of df.n rows, indexed 0 .. df.n-1.  Its closes are whole
\* dollars: df.even at the even rows, df.odd at the odd rows, and df.at[j]
\* at the rows j in the domain of df.at (a df.at over the single row 1 is
\* the one-element sequence of that close).
Close(d, j) ==
    IF j \in DOMAIN d.at THEN d.at[j]
    ELSE IF j % 2 = 0 THEN d.even ELSE d.odd

\* df['Close/Last'][j] as a float
CloseF(d, j) == Close(d, j) * SC

\* df['Close/Last'][j] is a label lookup: a missing row raises KeyError
HasRow(d, j) == j >= 0 /\ j < d.n

\* df['Date'][j]; the rows are in date order and the date is modelled by
\* the row number
Date(d, j) == j

\* ------------------------------------------------------------------------
\* volatility
\* ------------------------------------------------------------------------

\* df['Close/Last'][index-252:index]: the rows of a positional slice, which
\* pandas clips to the frame
WindowLo(index) == index - TradingDays
WindowHi(index, d) == IF index < d.n THEN index ELSE d.n
WindowRows(index, d) == WindowLo(index) .. (WindowHi(index, d) - 1)

\* One element of (prices / prices.shift(1)).apply(math.log), for the row t
\* after the first of the window: a finite log return, inf (a positive
\* close over a zero close), nan (zero over zero), or err when math.log
\* raises on the ratio 0.0
LogReturn(d, t) ==
    LET prev == Close(d, t - 1)
        cur  == Close(d, t)
    IN  IF prev > 0 /\ cur > 0
        THEN [t |-> "num", v |-> LnFix((cur * SC) \div prev)]
        ELSE IF prev > 0 THEN [t |-> "err", v |-> 0]
        ELSE IF cur > 0 THEN [t |-> "inf", v |-> 0]
        ELSE [t |-> "nan", v |-> 0]

\* The elements for the rows lo+1 .. hi-1 of the window, in order (the
\* window's first row divides by the shifted-in NaN and is dropped)
LogReturns(index, d) ==
    LET lo == WindowLo(index)
        m  == WindowHi(index, d) - lo - 1
    IN  IF m <= 0 THEN <<>> ELSE [k \in 1..m |-> LogReturn(d, lo + k)]

\* The sum of s[lo].v .. s[hi].v, by halves
RECURSIVE SumV(_, _, _)
SumV(s, lo, hi) ==
    IF lo > hi THEN 0
    ELSE IF lo = hi THEN s[lo].v
    ELSE LET mid == (lo + hi) \div 2
         IN  SumV(s, lo, mid) + SumV(s, mid + 1, hi)

\* The sum of the squared deviations of s[lo].v .. s[hi].v from mean
RECURSIVE SumSq(_, _, _, _)
SumSq(s, mean, lo, hi) ==
    IF lo > hi THEN 0
    ELSE IF lo = hi THEN (s[lo].v - mean) * (s[lo].v - mean)
    ELSE LET mid == (lo + hi) \div 2
         IN  SumSq(s, mean, lo, mid) + SumSq(s, mean, mid + 1, hi)

\* .dropna(): the elements that are not nan
DropNa(s) == SelectSeq(s, LAMBDA e : e.t # "nan")

\* Series.std(), ddof = 1, of the log returns kept by dropna
Std(s) ==
    IF Len(s) < 2 \/ \E k \in 1..Len(s) : s[k].t = "inf"
    THEN NaN
    ELSE LET mean == SumV(s, 1, Len(s)) \div Len(s)
         IN  Num(Isqrt(SumSq(s, mean, 1, Len(s)) \div (Len(s) - 1)))

IndexMsg == "Index too low for trailing volatility calculation"

\* The guard with <= for <
IndexTooLowOffByOne(index) == index <= TradingDays

\* if index < 252, line 45
IndexTooLow(index) == index < TradingDays

volatility(index, d) ==
    IF IndexTooLow(index)
    THEN Raise("ValueError", IndexMsg)
    ELSE LET rets == LogReturns(index, d)
         IN  IF \E k \in 1..Len(rets) : rets[k].t = "err"
             THEN Raise("ValueError", "math domain error")
             ELSE LET sd == Std(DropNa(rets))
                  IN  IF sd.nan THEN Return(NaN)
                      ELSE Return(Num(MulFix(sd.v, SqrtFix(TradingDays * SC))))

\* ------------------------------------------------------------------------
\* diffCheck
\* ------------------------------------------------------------------------

VARIABLES
    df,           \* the data frame
    strikeRatio,  \* the module's strikeRatio, a float
    start_index,  \* diffCheck's argument
    pc,           \* idle, loop, done, raised, returned
    i,            \* the loop variable
    netReturn,    \* a float, never NaN
    totalCost,    \* a float, NaN once a call price is NaN
    callPrices,   \* the list callPrices
    printed,      \* what the loop printed, one record per iteration
    summary,      \* what the lines after the loop printed
    exc,          \* the exception that left the operation, if any
    op,           \* the function called and its arguments
    ret           \* what the function returned

vars == <<df, strikeRatio, start_index, pc, i, netReturn, totalCost,
          callPrices, printed, summary, exc, op, ret>>

NoExc == [exc |-> "", msg |-> "", line |-> 0]
NoOp == [fn |-> "", arg |-> <<>>]
NoRet == Return(Num(0))

AddF(a, b) == IF a.nan \/ b.nan THEN NaN ELSE Num(a.v + b.v)
SubF(a, b) == IF a.nan \/ b.nan THEN NaN ELSE Num(a.v - b.v)
DivF(a, b) == IF a.nan \/ b.nan THEN NaN ELSE Num(DivFix(a.v, b.v))

\* The loop stopping one row early
LoopStopEarly(d) == d.n - TradingDays - 1

\* range(start_index, row_count - 252)
LoopStop(d) == d.n - TradingDays
LoopRange(d, start) == start .. (LoopStop(d) - 1)

\* diffCheck(start) is called: lines 52-58
DiffCheckStart(start) ==
    /\ pc = "idle"
    /\ pc' = "loop"
    /\ start_index' = start
    /\ i' = start
    /\ netReturn' = 0
    /\ totalCost' = Num(0)
    /\ callPrices' = <<>>
    /\ op' = [fn |-> "diffCheck", arg |-> <<start>>]
    /\ UNCHANGED <<df, strikeRatio, printed, summary, exc, ret>>

\* df['Close/Last'][i+252] - (strikeRatio * S), lines 65, 105 and 135
YearlyProfit(d, ratio, j) ==
    CloseF(d, j + TradingDays) - MulFix(ratio, CloseF(d, j))

\* The values one iteration computes (lines 61-65) and the exception that
\* ends it, if any
Iteration(d, ratio, j) ==
    LET S   == CloseF(d, j)
        K   == MulFix(S, ratio)
        vol == volatility(j, d)
        cp  == black_scholes_price(S, K, SC, ratio - SC, vol.val, <<"c", "a", "l", "l">>)
    IN  IF ~HasRow(d, j)
        THEN [ok |-> FALSE, exc |-> [exc |-> "KeyError", msg |-> "row", line |-> 61]]
        ELSE IF ~vol.ok
        THEN [ok |-> FALSE, exc |-> [exc |-> vol.exc, msg |-> vol.msg, line |-> 63]]
        ELSE IF ~cp.ok
        THEN [ok |-> FALSE, exc |-> [exc |-> cp.exc, msg |-> cp.msg, line |-> 64]]
        ELSE IF ~HasRow(d, j + TradingDays)
        THEN [ok |-> FALSE, exc |-> [exc |-> "KeyError", msg |-> "row", line |-> 65]]
        ELSE [ok |-> TRUE, exc |-> NoExc,
              index |-> j, date |-> Date(d, j), S |-> S, K |-> K,
              vol |-> vol.val, callPrice |-> cp.val,
              yearlyProfit |-> YearlyProfit(d, ratio, j)]

\* max(df['Close/Last'][i+252] - (1.05 * S), 0), line 78
Payoff(d, j) ==
    Max2(CloseF(d, j + TradingDays) - MulFix(PayoffRatio, CloseF(d, j)), 0)

\* The loop body's exception swallowed and the row skipped
AbortRunSkipped(e) ==
    /\ i' = i + 1
    /\ UNCHANGED <<pc, exc, printed, callPrices, netReturn, totalCost>>

\* An exception raised in the loop body leaves diffCheck: nothing catches it
AbortRun(e) ==
    /\ pc' = "raised"
    /\ exc' = e
    /\ UNCHANGED <<printed, callPrices, netReturn, totalCost, i>>

\* One iteration of the loop, lines 60-79
LoopStep ==
    /\ pc = "loop"
    /\ i < LoopStop(df)
    /\ LET it == Iteration(df, strikeRatio, i)
       IN  IF it.ok
           THEN /\ printed' = Append(printed,
                       [index |-> it.index, date |-> it.date, S |-> it.S, K |-> it.K,
                        vol |-> it.vol, callPrice |-> it.callPrice,
                        yearlyProfit |-> it.yearlyProfit])
                /\ callPrices' = Append(callPrices, it.callPrice)
                /\ netReturn' = netReturn + Payoff(df, i)
                /\ totalCost' = AddF(totalCost, it.callPrice)
                /\ i' = i + 1
                /\ UNCHANGED <<pc, exc>>
           ELSE AbortRun(it.exc)
    /\ UNCHANGED <<df, strikeRatio, start_index, summary, op, ret>>

Line(label, k, a, b) == [label |-> label, k |-> k, a |-> a, b |-> b]

FloatLine(label, f) ==
    IF f.nan THEN Line(label, "nan", 0, 0) ELSE Line(label, "num", f.v, 0)

\* (netReturn / totalCost)**(1/years), line 88, for years = steps/252 > 0:
\* nan for a NaN base, 0.0 for the base 0.0, and otherwise the power
\* base^(252/steps), kept as its operands
Annualized(net, cost, steps) ==
    LET base == DivF(Num(net), cost)
    IN  IF base.nan THEN Line("Annualized returns", "nan", 0, 0)
        ELSE IF net = 0 THEN Line("Annualized returns", "num", 0, 0)
        ELSE Line("Annualized returns", "pow", base.v, steps)

\* ((row_count - 252) - start_index), the days of line 86
YearsDays(d, start) == (d.n - TradingDays) - start

\* The lines after the loop, 80-89
Summarize ==
    /\ pc = "loop"
    /\ i >= LoopStop(df)
    /\ LET steps == YearsDays(df, start_index)
           head  == << FloatLine("Total Profit", SubF(Num(netReturn), totalCost)),
                       FloatLine("Total Cost", totalCost) >>
           roi   == FloatLine("Return on investment",
                              DivF(SubF(Num(netReturn), totalCost), totalCost))
           years == Line("Years", "frac", steps, TradingDays)
       IN  IF ~totalCost.nan /\ totalCost.v = 0
           THEN /\ summary' = head
                /\ pc' = "raised"
                /\ exc' = [exc |-> "ZeroDivisionError", msg |-> "division by zero", line |-> 85]
                /\ UNCHANGED ret
           ELSE IF steps = 0
           THEN /\ summary' = head \o <<roi, years>>
                /\ pc' = "raised"
                /\ exc' = [exc |-> "ZeroDivisionError", msg |-> "division by zero", line |-> 88]
                /\ UNCHANGED ret
           ELSE /\ summary' = head \o <<roi, years,
                                        Annualized(netReturn, totalCost, steps)>>
                /\ pc' = "done"
                /\ ret' = Return(Num(0))
                /\ UNCHANGED exc
    /\ UNCHANGED <<df, strikeRatio, start_index, i, netReturn, totalCost,
                   callPrices, printed, op>>

\* ------------------------------------------------------------------------
\* plot_call_price_vs_profit, plot_time_series
\* ------------------------------------------------------------------------

\* The loop of both plots, range(252, row_count - 252), from row j on: the
\* lists built, or the exception of the first iteration that raises
RECURSIVE PlotLoop(_, _, _, _)
PlotLoop(d, ratio, j, acc) ==
    IF j >= LoopStop(d) THEN acc
    ELSE LET it == Iteration(d, ratio, j)
         IN  IF ~it.ok
             THEN [ok |-> FALSE, exc |-> it.exc, dates |-> <<>>,
                   call_prices |-> <<>>, yearly_profits |-> <<>>]
             ELSE PlotLoop(d, ratio, j + 1,
                      [ok |-> TRUE, exc |-> NoExc,
                       dates |-> Append(acc.dates, it.date),
                       call_prices |-> Append(acc.call_prices, it.callPrice),
                       yearly_profits |-> Append(acc.yearly_profits, it.yearlyProfit)])

PlotLists(d, ratio) ==
    PlotLoop(d, ratio, TradingDays,
             [ok |-> TRUE, exc |-> NoExc, dates |-> <<>>,
              call_prices |-> <<>>, yearly_profits |-> <<>>])

Plot(fn) ==
    /\ pc = "idle"
    /\ LET p == PlotLists(df, strikeRatio)
       IN  /\ pc' = IF p.ok THEN "returned" ELSE "raised"
           /\ exc' = p.exc
           /\ op' = [fn |-> fn, arg |-> <<>>]
           /\ ret' = p
    /\ UNCHANGED <<df, strikeRatio, start_index, i, netReturn, totalCost,
                   callPrices, printed, summary>>

plot_time_series == Plot("plot_time_series")

plot_call_price_vs_profit == Plot("plot_call_price_vs_profit")

\* ------------------------------------------------------------------------
\* Calls of volatility and of the pricer on their own
\* ------------------------------------------------------------------------

VolatilityCall(index) ==
    /\ pc = "idle"
    /\ LET v == volatility(index, df)
       IN  /\ pc' = IF v.ok THEN "returned" ELSE "raised"
           /\ exc' = IF v.ok THEN NoExc
                     ELSE [exc |-> v.exc, msg |-> v.msg,
                           line |-> IF v.msg = IndexMsg THEN 46 ELSE 48]
           /\ op' = [fn |-> "volatility", arg |-> <<index>>]
           /\ ret' = v
    /\ UNCHANGED <<df, strikeRatio, start_index, i, netReturn, totalCost,
                   callPrices, printed, summary>>

PriceCall(S, K, T, r, sigma, option_type) ==
    /\ pc = "idle"
    /\ LET p == black_scholes_price(S, K, T, r, sigma, option_type)
       IN  /\ pc' = IF p.ok THEN "returned" ELSE "raised"
           /\ exc' = IF p.ok THEN NoExc ELSE [exc |-> p.exc, msg |-> p.msg, line |-> 12]
           /\ op' = [fn |-> "black_scholes_price",
                      arg |-> <<S, K, T, r, sigma, option_type>>]
           /\ ret' = p
    /\ UNCHANGED <<df, strikeRatio, start_index, i, netReturn, totalCost,
                   callPrices, printed, summary>>

\* ------------------------------------------------------------------------
\* Specifications
\* ------------------------------------------------------------------------

\* The longest loop of the data frames explored.
MaxSteps == 2

\* Closes a year ahead of the rows the loop visits.
ForwardCloses == {95, 120}

\* The rows whose close may be zero: the first two of the first window and
\* the first row the loop visits.
ZeroRows == {0, 1, TradingDays}

FramesOfLen(len) ==
    { [n |-> 2 * TradingDays + len, even |-> 100, odd |-> o, at |-> z @@ f] :
        o \in {100, 105},
        z \in UNION { [R -> {0}] : R \in SUBSET ZeroRows },
        f \in [(2 * TradingDays)..(2 * TradingDays + len - 1) -> ForwardCloses] }

Frames == UNION { FramesOfLen(len) : len \in 0..MaxSteps }

StrikeRatios == {1050, 1100}

StartIndexes == {TradingDays - 1, TradingDays, TradingDays + 1}

Init ==
    /\ df \in Frames
    /\ strikeRatio \in StrikeRatios
    /\ start_index = 0
    /\ pc = "idle"
    /\ i = 0
    /\ netReturn = 0
    /\ totalCost = Num(0)
    /\ callPrices = <<>>
    /\ printed = <<>>
    /\ summary = <<>>
    /\ exc = NoExc
    /\ op = NoOp
    /\ ret = NoRet

VolatilityIndexes(d) == {0, TradingDays - 1, TradingDays, TradingDays + 1, d.n}

\* One behaviour follows one call: diffCheck, a plot or volatility.  The
\* three read the data frame and share no other state, so the calls that
\* __main__ makes one after the other are explored one by one.
Next ==
    \/ \E start \in StartIndexes : DiffCheckStart(start)
    \/ LoopStep
    \/ Summarize
    \/ plot_time_series
    \/ plot_call_price_vs_profit
    \/ \E index \in VolatilityIndexes(df) : VolatilityCall(index)

Spec == Init /\ [][Next]_vars

\* The pricer on its own: every combination of these arguments.
PriceArgs == {-5 * SC, 0, 100 * SC, 105 * SC}
TimeArgs == {-SC, 0, SC \div 4, SC}
RateArgs == {0, 50}
SigmaArgs == {Num(-200), Num(0), Num(200), Num(400)}
TypeArgs ==
    { <<"c", "a", "l", "l">>, <<"C", "A", "L", "L">>, <<"C", "a", "l", "l">>,
      <<"p", "u", "t">>, <<"P", "U", "T">>, <<"p", "u", "T">>,
      <<"c", "a", "l">>, <<"S", "W", "A", "P">>, <<>> }

InitPricer ==
    /\ df = [n |-> 0, even |-> 100, odd |-> 100, at |-> <<>>]
    /\ strikeRatio = 1050
    /\ start_index = 0
    /\ pc = "idle"
    /\ i = 0
    /\ netReturn = 0
    /\ totalCost = Num(0)
    /\ callPrices = <<>>
    /\ printed = <<>>
    /\ summary = <<>>
    /\ exc = NoExc
    /\ op = NoOp
    /\ ret = NoRet

NextPricer ==
    \E S \in PriceArgs, K \in PriceArgs, T \in TimeArgs, r \in RateArgs,
       sigma \in SigmaArgs, option_type \in TypeArgs :
        PriceCall(S, K, T, r, sigma, option_type)

SpecPricer == InitPricer /\ [][NextPricer]_vars

\* ------------------------------------------------------------------------
\* Properties
\* ------------------------------------------------------------------------

PricerCalled == op.fn = "black_scholes_price"
VolatilityCalled == op.fn = "volatility"
DiffCheckCalled == op.fn = "diffCheck"
PlotCalled == op.fn \in {"plot_time_series", "plot_call_price_vs_profit"}

\* S, K, T and sigma of a pricer call are all greater than 0
ArgsPositive ==
    op.arg[1] > 0 /\ op.arg[2] > 0 /\ op.arg[3] > 0 /\ op.arg[5].v > 0

\* s spells call, or put, in some mix of upper and lower case
SpellsCall(s) ==
    /\ Len(s) = 4
    /\ s[1] \in {"c", "C"} /\ s[2] \in {"a", "A"}
    /\ s[3] \in {"l", "L"} /\ s[4] \in {"l", "L"}
SpellsPut(s) ==
    /\ Len(s) = 3
    /\ s[1] \in {"p", "P"} /\ s[2] \in {"u", "U"} /\ s[3] \in {"t", "T"}

\* diffCheck is past its loop: it returned, or raised in the lines after it
LoopFinished == pc = "done" \/ (pc = "raised" /\ exc.line >= 80)

\* C1: a pricer call with S, K, T or sigma <= 0 raises the ValueError whose
\* message states the constraint and returns no price; a call with all four
\* > 0 and a kind that spells call or put returns a price and raises nothing.
C1_DomainError ==
    PricerCalled =>
        /\ ~ArgsPositive =>
              /\ pc = "raised"
              /\ ~ret.ok
              /\ exc.exc = "ValueError"
              /\ exc.msg = "S, K, T, and sigma must be greater than 0."
        /\ (ArgsPositive /\ (SpellsCall(op.arg[6]) \/ SpellsPut(op.arg[6]))) =>
              /\ pc = "returned"
              /\ ret.ok
              /\ ~ret.val.nan
              /\ exc = NoExc

\* A call whose only violation is K = 0 was rejected.
C1_Witness ==
    /\ PricerCalled
    /\ op.arg[1] > 0 /\ op.arg[2] = 0 /\ op.arg[3] > 0 /\ op.arg[5].v > 0
    /\ pc = "raised"
    /\ exc.msg = DomainMsg

\* C2: with S, K, T, sigma > 0, a kind that spells neither call nor put in
\* any case raises the invalid-option-type ValueError, whose message differs
\* from the domain error's; every spelling of call or put is priced.
C2_OptionType ==
    (PricerCalled /\ ArgsPositive) =>
        IF SpellsCall(op.arg[6]) \/ SpellsPut(op.arg[6])
        THEN pc = "returned" /\ ret.ok /\ exc = NoExc
        ELSE /\ pc = "raised"
             /\ ~ret.ok
             /\ exc.msg = "Invalid option type. Use 'call' or 'put'."
             /\ <<exc.exc, exc.msg>> # <<"ValueError", DomainMsg>>

\* A call with valid numbers and the kind SWAP was rejected as an invalid type.
C2_Witness ==
    /\ PricerCalled
    /\ ArgsPositive
    /\ op.arg[6] = <<"S", "W", "A", "P">>
    /\ pc = "raised"
    /\ exc.msg = TypeMsg

\* The closes of the 252 rows before index are all strictly positive
WindowPositive(index) ==
    \A j \in (index - 252)..(index - 1) : HasRow(df, j) /\ Close(df, j) > 0

\* The window of index is the 252 rows [index-252, index) and gives 251
\* log returns, none dropped
WindowAsClaimed(index) ==
    /\ WindowRows(index, df) = (index - 252)..(index - 1)
    /\ Cardinality(WindowRows(index, df)) = 252
    /\ Len(DropNa(LogReturns(index, df))) = 251

\* C3 as stated: volatility fails for every index < 252 and succeeds for
\* every index from 252 on within the series, over the 252 rows
\* [index-252, index) and their 251 log returns.
C3_Original ==
    VolatilityCalled =>
        LET index == op.arg[1]
        IN  /\ index < 252 => (pc = "raised" /\ exc.msg = IndexMsg)
            /\ (index >= 252 /\ index <= df.n) =>
                  (pc = "returned" /\ ret.ok /\ WindowAsClaimed(index))

\* C3, amended: the same, where success is claimed only for a window whose
\* closes are all strictly positive.
C3_Amended ==
    VolatilityCalled =>
        LET index == op.arg[1]
        IN  /\ index < 252 =>
                  (pc = "raised" /\ exc.exc = "ValueError" /\ exc.msg = IndexMsg)
            /\ (index >= 252 /\ index <= df.n /\ WindowPositive(index)) =>
                  (pc = "returned" /\ ret.ok /\ ~ret.val.nan /\ WindowAsClaimed(index))

\* volatility was called with index 252 on positive closes and returned.
C3_Witness ==
    /\ VolatilityCalled
    /\ op.arg[1] = 252
    /\ WindowPositive(252)
    /\ pc = "returned"
    /\ ~ret.val.nan

\* C4: a completed run with start_index >= 252 printed one step for each
\* row from start_index to len - 252 - 1, in ascending order, each reading
\* row i + 252 inside the frame, and reports years (len - 252 - start) / 252.
C4_StepCount ==
    (DiffCheckCalled /\ pc = "done" /\ start_index >= 252) =>
        LET cnt == df.n - 252 - start_index
        IN  /\ Len(printed) = cnt
            /\ Len(callPrices) = cnt
            /\ \A k \in 1..Len(printed) :
                  /\ printed[k].index = start_index + k - 1
                  /\ printed[k].index + 252 <= df.n - 1
            /\ Len(summary) >= 4
            /\ summary[4] = [label |-> "Years", k |-> "frac", a |-> cnt, b |-> 252]

\* A run from row 252 over two rows completed.
C4_Witness ==
    /\ DiffCheckCalled
    /\ pc = "done"
    /\ start_index = 252
    /\ Len(printed) = 2

\* C5: a run over a frame of fewer than start_index + 252 + 1 rows ends in
\* InsufficientData, with nothing printed.
C5_InsufficientData ==
    (DiffCheckCalled /\ pc \in {"done", "raised"}
        /\ df.n < start_index + 252 + 1) =>
        /\ pc = "raised"
        /\ exc.exc = "InsufficientData"
        /\ printed = <<>>
        /\ summary = <<>>

\* C6: past the loop, a total cost of 0 gives a summary whose return on
\* investment is reported as undefined, and no exception; any other total
\* cost gives the return on investment (netReturn - totalCost) / totalCost.
C6_RoiUndefined ==
    (DiffCheckCalled /\ LoopFinished) =>
        IF ~totalCost.nan /\ totalCost.v = 0
        THEN /\ pc = "done"
             /\ Len(summary) >= 3
             /\ summary[3].label = "Return on investment"
             /\ summary[3].k = "undefined"
        ELSE /\ Len(summary) >= 3
             /\ summary[3] = FloatLine("Return on investment",
                    DivF(SubF(Num(netReturn), totalCost), totalCost))

\* netReturn / totalCost is a number greater than 0
RatioPositive ==
    /\ ~totalCost.nan
    /\ (netReturn > 0 /\ totalCost.v > 0) \/ (netReturn < 0 /\ totalCost.v < 0)

\* C7: a run that completes reports the annualized return as the evaluated
\* power when netReturn / totalCost > 0 and as undefined in every other
\* case.
C7_AnnualizedGuard ==
    (DiffCheckCalled /\ pc = "done") =>
        /\ Len(summary) = 5
        /\ summary[5].label = "Annualized returns"
        /\ IF RatioPositive
           THEN summary[5].k = "pow"
           ELSE summary[5].k = "undefined"

RECURSIVE SumClaimedPayoffs(_)
SumClaimedPayoffs(k) ==
    IF k = 0 THEN 0
    ELSE Max2(CloseF(df, printed[k].index + 252)
              - MulFix(strikeRatio, CloseF(df, printed[k].index)), 0)
         + SumClaimedPayoffs(k - 1)

RECURSIVE SumCallPrices(_)
SumCallPrices(k) ==
    IF k = 0 THEN Num(0) ELSE AddF(SumCallPrices(k - 1), callPrices[k])

\* C8: after a completed run netReturn is the sum over the steps of
\* max(close[i+252] - strikeRatio * close[i], 0), for the strike ratio the
\* module is configured with, and totalCost is the sum of the call prices.
C8_NetReturn ==
    (DiffCheckCalled /\ pc = "done") =>
        /\ netReturn = SumClaimedPayoffs(Len(printed))
        /\ totalCost = SumCallPrices(Len(callPrices))

\* max(close[j+252] - strikeRatio * close[j], 0)
FlooredPayoff(j) ==
    Max2(CloseF(df, j + 252) - MulFix(strikeRatio, CloseF(df, j)), 0)

\* C9: every yearly profit printed by diffCheck, and every element of the
\* yearly-profit list of either plot, is the floored payoff: never negative,
\* and for diffCheck the value added to netReturn for that step.
C9_EmittedFloored ==
    /\ DiffCheckCalled =>
          \A k \in 1..Len(printed) :
              /\ printed[k].yearlyProfit >= 0
              /\ printed[k].yearlyProfit = FlooredPayoff(printed[k].index)
              /\ printed[k].yearlyProfit = Payoff(df, printed[k].index)
    /\ (PlotCalled /\ pc = "returned") =>
          \A k \in 1..Len(ret.yearly_profits) :
              /\ ret.yearly_profits[k] >= 0
              /\ ret.yearly_profits[k] = FlooredPayoff(252 + k - 1)

\* C10: when a step of a run fails, the run never moves past that row,
\* prints nothing for it or a later row, prints no summary and does not
\* complete; the run that raised in its loop holds the failing step's
\* exception and takes no further step.
C10_AbortOnFailure ==
    DiffCheckCalled =>
        /\ \A j \in LoopRange(df, start_index) :
              ~Iteration(df, strikeRatio, j).ok =>
                  /\ i <= j
                  /\ pc # "done"
                  /\ summary = <<>>
                  /\ \A k \in 1..Len(printed) : printed[k].index < j
        /\ (pc = "raised" /\ exc.line < 80) =>
              /\ exc.exc # ""
              /\ exc = Iteration(df, strikeRatio, i).exc
              /\ Len(printed) = i - start_index
              /\ ~ENABLED Next

\* The pricer rejected a step while a later row was still to come.
C10_Witness ==
    /\ DiffCheckCalled
    /\ pc = "raised"
    /\ exc.line = 64
    /\ exc.msg = DomainMsg
    /\ i + 1 < LoopStop(df)
====
